---- MODULE Spec2Model ----
(***************************************************************************)
(* Position resolution of the KCL language server (LSP/src/util.rs):       *)
(* inner_most_expr, inner_most_expr_in_stmt, inner_most_expr_in_config_-   *)
(* entry, build_identifier_from_ty_string and apply_document_changes.      *)
(*                                                                         *)
(* A syntax node is the record [node, line, column, end_line, end_column]  *)
(* (kclvm_ast::ast::Node; the file name is the same for every node of a    *)
(* query and is left out).  An enum value (Expr, Stmt, Type) is            *)
(* [tag |-> variant, val |-> payload].  Option<T> is a sequence of length  *)
(* 0 or 1, Vec<T> a sequence.                                              *)
(***************************************************************************)
EXTENDS Integers, Sequences, FiniteSets, TLC

VARIABLES op, tree, pos, schema_def, result, text, prev_text, content_changes

vars == <<op, tree, pos, schema_def, result, text, prev_text, content_changes>>

\* ------------------------------------------------------------- bounds
\* Columns per source line of the laid-out inputs.
LineWidth == 4
\* Nesting depth (constructors above the leaf) of the laid-out expressions.
MaxDepth == 3
\* Longest text buffer and longest batch of changes.
MaxTextLen == 2
\* Nesting depth of the laid-out type annotations.
MaxTypeDepth == 2
MaxChanges == 2

\* ------------------------------------------------------------ options
None == <<>>
Some(x) == <<x>>

Min(S) == CHOOSE x \in S : \A y \in S : x <= y

\* Vec<Option<T>>.iter().flatten()
RECURSIVE Flatten(_)
Flatten(opts) ==
    IF opts = <<>> THEN <<>> ELSE Head(opts) \o Flatten(Tail(opts))

\* ----------------------------------------------------- span / position
\* A position is [line, column] with column an Option; a span is inclusive
\* at both ends and a position without column matches its whole line.
PosLessEq(l1, c1, l2, c2) == l1 < l2 \/ (l1 = l2 /\ c1 <= c2)

contains_pos(n, p) ==
    IF p.column = None
    THEN n.line <= p.line /\ p.line <= n.end_line
    ELSE /\ PosLessEq(n.line, n.column, p.line, p.column[1])
         /\ PosLessEq(p.line, p.column[1], n.end_line, n.end_column)

node_with_pos(node, line, column, end_line, end_column) ==
    [node |-> node, line |-> line, column |-> column,
     end_line |-> end_line, end_column |-> end_column]

SameSpan(a, b) ==
    /\ a.line = b.line /\ a.column = b.column
    /\ a.end_line = b.end_line /\ a.end_column = b.end_column

\* ------------------------------------------------ pseudo-expressions
\* Identifier { names: vec![s], pkgpath: "", ctx: Load }
IdentifierOf(name) == [names |-> <<name>>, pkgpath |-> "", ctx |-> "Load"]

\* Node::node_with_pos($kind($expr.node.clone()), ($expr's span))
NewExpr(kind, e) ==
    node_with_pos([tag |-> kind, val |-> e.node],
                  e.line, e.column, e.end_line, e.end_column)

build_identifier_from_string(s) ==
    node_with_pos([tag |-> "Identifier", val |-> IdentifierOf(s.node)],
                  s.line, s.column, s.end_line, s.end_column)

RECURSIVE build_identifier_from_ty_string(_, _)
RECURSIVE inner_most_expr(_, _, _)
RECURSIVE inner_most_expr_in_stmt(_, _, _)
RECURSIVE inner_most_expr_in_config_entry(_, _, _)

\* ------------------------------------------------------------- walks
\* One guarded early return of the navigators: "if n.contains_pos(pos)
\* { return <resolve n by `via` under sd> }".
walk_if_contains(e, sd) == <<[via |-> "expr", n |-> e, sd |-> sd]>>

walk_if_contains_with_new_expr(e, sd, kind) ==
    <<[via |-> "expr", n |-> NewExpr(kind, e), sd |-> sd]>>

walk_option_if_contains(opt, sd) ==
    [i \in 1..Len(opt) |-> [via |-> "expr", n |-> opt[i], sd |-> sd]]

walk_list_if_contains(list, sd) ==
    [i \in 1..Len(list) |-> [via |-> "expr", n |-> list[i], sd |-> sd]]

walk_list_with_new_expr(list, sd, kind) ==
    [i \in 1..Len(list) |-> [via |-> "expr", n |-> NewExpr(kind, list[i]), sd |-> sd]]

walk_stmts(stmts, sd) ==
    [i \in 1..Len(stmts) |-> [via |-> "stmt", n |-> stmts[i], sd |-> sd]]

walk_entries(items, sd) ==
    [i \in 1..Len(items) |-> [via |-> "entry", n |-> items[i], sd |-> sd]]

walk_type_annotations(tys, sd) ==
    [i \in 1..Len(tys) |-> [via |-> "string", n |-> tys[i], sd |-> sd]]

walk_type(ty, sd) == <<[via |-> "type", n |-> ty, sd |-> sd]>>

Resolve(s, p) ==
    CASE s.via = "expr"   -> inner_most_expr(s.n, p, s.sd)
      [] s.via = "stmt"   -> inner_most_expr_in_stmt(s.n.node, p, s.sd)
      [] s.via = "entry"  -> inner_most_expr_in_config_entry(s.n, p, s.sd)
      [] s.via = "string" -> <<Some(build_identifier_from_string(s.n)), s.sd>>
      [] s.via = "type"   -> <<build_identifier_from_ty_string(s.n, p), s.sd>>

\* The walks of one match arm in program order: the first whose node
\* contains the position returns; `otherwise` is the arm's last expression.
FirstMatch(walks, p, otherwise) ==
    LET hit == {i \in 1..Len(walks) : contains_pos(walks[i].n, p)}
    IN  IF hit = {} THEN otherwise ELSE Resolve(walks[Min(hit)], p)

\* ------------------------------------------- build_identifier_from_ty_string
Type_Named(ty) ==
    Some(node_with_pos([tag |-> "Identifier", val |-> ty.node.val],
                       ty.line, ty.column, ty.end_line, ty.end_column))

Type_List(ty, p) ==
    LET inner == ty.node.val.inner_type
    IN  IF inner # None /\ contains_pos(inner[1], p)
        THEN build_identifier_from_ty_string(inner[1], p)
        ELSE None

\* Mutation: the value type of a Dict is never looked into.
Type_Dict_key_only(ty, p) ==
    LET key_ty == ty.node.val.key_type
    IN  IF key_ty # None /\ contains_pos(key_ty[1], p)
        THEN build_identifier_from_ty_string(key_ty[1], p)
        ELSE None

Type_Dict(ty, p) ==
    LET key_ty == ty.node.val.key_type
        value_ty == ty.node.val.value_type
    IN  IF key_ty # None /\ contains_pos(key_ty[1], p)
        THEN build_identifier_from_ty_string(key_ty[1], p)
        ELSE IF value_ty # None /\ contains_pos(value_ty[1], p)
        THEN build_identifier_from_ty_string(value_ty[1], p)
        ELSE None

Type_Union(ty, p) ==
    LET elems == ty.node.val.type_elements
        hit == {i \in 1..Len(elems) : contains_pos(elems[i], p)}
    IN  IF hit = {} THEN None
        ELSE build_identifier_from_ty_string(elems[Min(hit)], p)

build_identifier_from_ty_string(ty, p) ==
    IF ~contains_pos(ty, p) THEN None
    ELSE CASE ty.node.tag = "Any"     -> None
           [] ty.node.tag = "Named"   -> Type_Named(ty)
           [] ty.node.tag = "Basic"   -> None
           [] ty.node.tag = "List"    -> Type_List(ty, p)
           [] ty.node.tag = "Dict"    -> Type_Dict(ty, p)
           [] ty.node.tag = "Union"   -> Type_Union(ty, p)
           [] ty.node.tag = "Literal" -> None

\* ------------------------------------------------------ inner_most_expr
\* `(Some(expr.clone()), schema_def)`
Itself(expr, sd) == <<Some(expr), sd>>

Expr_Selector(expr, p, sd) ==
    LET select_expr == expr.node.val
    IN  FirstMatch(walk_if_contains_with_new_expr(select_expr.attr, sd, "Identifier")
                   \o walk_if_contains(select_expr.value, sd),
                   p, Itself(expr, sd))

\* Mutation: the config body is resolved under the incoming context.
Expr_Schema_keeps_context(expr, p, sd) ==
    LET schema_expr == expr.node.val
    IN  FirstMatch(walk_if_contains_with_new_expr(schema_expr.name, sd, "Identifier")
                   \o walk_list_if_contains(schema_expr.args, sd)
                   \o walk_list_with_new_expr(schema_expr.kwargs, sd, "Keyword")
                   \o walk_if_contains(schema_expr.config, sd),
                   p, Itself(expr, sd))

\* Mutation: the schema instantiation is the context of its name,
\* arguments and keyword arguments too.
Expr_Schema_sets_context_early(expr, p, sd) ==
    LET schema_expr == expr.node.val
    IN  FirstMatch(walk_if_contains_with_new_expr(schema_expr.name, Some(expr), "Identifier")
                   \o walk_list_if_contains(schema_expr.args, Some(expr))
                   \o walk_list_with_new_expr(schema_expr.kwargs, Some(expr), "Keyword")
                   \o walk_if_contains(schema_expr.config, Some(expr)),
                   p, Itself(expr, sd))

Expr_Schema(expr, p, sd) ==
    LET schema_expr == expr.node.val
    IN  FirstMatch(walk_if_contains_with_new_expr(schema_expr.name, sd, "Identifier")
                   \o walk_list_if_contains(schema_expr.args, sd)
                   \o walk_list_with_new_expr(schema_expr.kwargs, sd, "Keyword")
                   \o walk_if_contains(schema_expr.config, Some(expr)),
                   p, Itself(expr, sd))

Expr_Config(expr, p, sd) ==
    FirstMatch(walk_entries(expr.node.val.items, sd), p, Itself(expr, sd))

Expr_Unary(expr, p, sd) ==
    FirstMatch(walk_if_contains(expr.node.val.operand, sd), p, Itself(expr, sd))

Expr_Binary(expr, p, sd) ==
    LET binary_expr == expr.node.val
    IN  FirstMatch(walk_if_contains(binary_expr.left, sd)
                   \o walk_if_contains(binary_expr.right, sd),
                   p, Itself(expr, sd))

Expr_If(expr, p, sd) ==
    LET if_expr == expr.node.val
    IN  FirstMatch(walk_if_contains(if_expr.body, sd)
                   \o walk_if_contains(if_expr.cond, sd)
                   \o walk_if_contains(if_expr.orelse, sd),
                   p, Itself(expr, sd))

Expr_Call(expr, p, sd) ==
    LET call_expr == expr.node.val
    IN  FirstMatch(walk_list_if_contains(call_expr.args, sd)
                   \o walk_list_with_new_expr(call_expr.keywords, sd, "Keyword")
                   \o walk_if_contains(call_expr.func, sd),
                   p, Itself(expr, sd))

Expr_Paren(expr, p, sd) ==
    FirstMatch(walk_if_contains(expr.node.val.expr, sd), p, Itself(expr, sd))

Expr_Quant(expr, p, sd) ==
    LET quant_expr == expr.node.val
    IN  FirstMatch(walk_if_contains(quant_expr.target, sd)
                   \o walk_list_with_new_expr(quant_expr.variables, sd, "Identifier")
                   \o walk_if_contains(quant_expr.test, sd)
                   \o walk_option_if_contains(quant_expr.if_cond, sd),
                   p, Itself(expr, sd))

\* Mutation: the elements of a list are resolved from no context.
Expr_List_resets_context(expr, p, sd) ==
    FirstMatch(walk_list_if_contains(expr.node.val.elts, None), p, Itself(expr, sd))

Expr_List(expr, p, sd) ==
    FirstMatch(walk_list_if_contains(expr.node.val.elts, sd), p, Itself(expr, sd))

Expr_ListIfItem(expr, p, sd) ==
    LET list_if_item_expr == expr.node.val
    IN  FirstMatch(walk_if_contains(list_if_item_expr.if_cond, sd)
                   \o walk_list_if_contains(list_if_item_expr.exprs, sd)
                   \o walk_option_if_contains(list_if_item_expr.orelse, sd),
                   p, Itself(expr, sd))

Expr_ListComp(expr, p, sd) ==
    LET list_comp_expr == expr.node.val
    IN  FirstMatch(walk_if_contains(list_comp_expr.elt, sd)
                   \o walk_list_with_new_expr(list_comp_expr.generators, sd, "CompClause"),
                   p, Itself(expr, sd))

Expr_Starred(expr, p, sd) ==
    FirstMatch(walk_if_contains(expr.node.val.value, sd), p, Itself(expr, sd))

\* Mutation: a DictComp is descended into like a ListComp.
Expr_DictComp_descends(expr, p, sd) ==
    LET dict_comp == expr.node.val
    IN  FirstMatch(walk_option_if_contains(dict_comp.entry.key, sd)
                   \o walk_if_contains(dict_comp.entry.value, sd)
                   \o walk_list_with_new_expr(dict_comp.generators, sd, "CompClause"),
                   p, Itself(expr, sd))

Expr_DictComp(expr, p, sd) == Itself(expr, sd)

Expr_ConfigIfEntry(expr, p, sd) ==
    LET config_if_entry_expr == expr.node.val
    IN  FirstMatch(walk_if_contains(config_if_entry_expr.if_cond, sd)
                   \o walk_entries(config_if_entry_expr.items, sd)
                   \o walk_option_if_contains(config_if_entry_expr.orelse, sd),
                   p, Itself(expr, sd))

Expr_CompClause(expr, p, sd) ==
    LET comp_clause == expr.node.val
    IN  FirstMatch(walk_list_with_new_expr(comp_clause.targets, sd, "Identifier")
                   \o walk_if_contains(comp_clause.iter, sd)
                   \o walk_list_if_contains(comp_clause.ifs, sd),
                   p, Itself(expr, sd))

Expr_Check(expr, p, sd) ==
    LET check_expr == expr.node.val
    IN  FirstMatch(walk_if_contains(check_expr.test, sd)
                   \o walk_option_if_contains(check_expr.if_cond, sd)
                   \o walk_option_if_contains(check_expr.msg, sd),
                   p, Itself(expr, sd))

Expr_Lambda(expr, p, sd) ==
    LET lambda_expr == expr.node.val
    IN  FirstMatch(walk_list_with_new_expr(lambda_expr.args, sd, "Arguments")
                   \o walk_stmts(lambda_expr.body, sd),
                   p, Itself(expr, sd))

Expr_Subscript(expr, p, sd) ==
    LET subscript_expr == expr.node.val
    IN  FirstMatch(walk_if_contains(subscript_expr.value, sd)
                   \o walk_option_if_contains(subscript_expr.index, sd)
                   \o walk_option_if_contains(subscript_expr.lower, sd)
                   \o walk_option_if_contains(subscript_expr.upper, sd)
                   \o walk_option_if_contains(subscript_expr.step, sd),
                   p, Itself(expr, sd))

Expr_Keyword(expr, p, sd) ==
    LET keyword == expr.node.val
    IN  FirstMatch(walk_if_contains_with_new_expr(keyword.arg, sd, "Identifier")
                   \o walk_option_if_contains(keyword.value, sd),
                   p, Itself(expr, sd))

Expr_Arguments(expr, p, sd) ==
    LET argument == expr.node.val
    IN  FirstMatch(walk_list_with_new_expr(argument.args, sd, "Identifier")
                   \o walk_list_if_contains(Flatten(argument.defaults), sd)
                   \o walk_type_annotations(Flatten(argument.type_annotation_list), sd),
                   p, Itself(expr, sd))

Expr_Compare(expr, p, sd) ==
    LET compare_expr == expr.node.val
    IN  FirstMatch(walk_if_contains(compare_expr.left, sd)
                   \o walk_list_if_contains(compare_expr.comparators, sd),
                   p, Itself(expr, sd))

Expr_JoinedString(expr, p, sd) ==
    FirstMatch(walk_list_if_contains(expr.node.val.values, sd), p, Itself(expr, sd))

Expr_FormattedValue(expr, p, sd) ==
    FirstMatch(walk_if_contains(expr.node.val.value, sd), p, Itself(expr, sd))

match_expr(expr, p, sd) ==
    LET tag == expr.node.tag
    IN  CASE tag = "Identifier"      -> Itself(expr, sd)
          [] tag = "Selector"        -> Expr_Selector(expr, p, sd)
          [] tag = "Schema"          -> Expr_Schema(expr, p, sd)
          [] tag = "Config"          -> Expr_Config(expr, p, sd)
          [] tag = "Unary"           -> Expr_Unary(expr, p, sd)
          [] tag = "Binary"          -> Expr_Binary(expr, p, sd)
          [] tag = "If"              -> Expr_If(expr, p, sd)
          [] tag = "Call"            -> Expr_Call(expr, p, sd)
          [] tag = "Paren"           -> Expr_Paren(expr, p, sd)
          [] tag = "Quant"           -> Expr_Quant(expr, p, sd)
          [] tag = "List"            -> Expr_List(expr, p, sd)
          [] tag = "ListIfItem"      -> Expr_ListIfItem(expr, p, sd)
          [] tag = "ListComp"        -> Expr_ListComp(expr, p, sd)
          [] tag = "Starred"         -> Expr_Starred(expr, p, sd)
          [] tag = "DictComp"        -> Expr_DictComp(expr, p, sd)
          [] tag = "ConfigIfEntry"   -> Expr_ConfigIfEntry(expr, p, sd)
          [] tag = "CompClause"      -> Expr_CompClause(expr, p, sd)
          [] tag = "Check"           -> Expr_Check(expr, p, sd)
          [] tag = "Lambda"          -> Expr_Lambda(expr, p, sd)
          [] tag = "Subscript"       -> Expr_Subscript(expr, p, sd)
          [] tag = "Keyword"         -> Expr_Keyword(expr, p, sd)
          [] tag = "Arguments"       -> Expr_Arguments(expr, p, sd)
          [] tag = "Compare"         -> Expr_Compare(expr, p, sd)
          [] tag = "NumberLit"       -> Itself(expr, sd)
          [] tag = "StringLit"       -> Itself(expr, sd)
          [] tag = "NameConstantLit" -> Itself(expr, sd)
          [] tag = "JoinedString"    -> Expr_JoinedString(expr, p, sd)
          [] tag = "FormattedValue"  -> Expr_FormattedValue(expr, p, sd)
          [] tag = "Missing"         -> Itself(expr, sd)

\* Mutation: outside the root the incoming context is handed back.
inner_most_expr_keeps_context(expr, p, sd) ==
    IF ~contains_pos(expr, p) THEN <<None, sd>> ELSE match_expr(expr, p, sd)

inner_most_expr(expr, p, sd) ==
    IF ~contains_pos(expr, p) THEN <<None, None>> ELSE match_expr(expr, p, sd)

\* --------------------------------------- inner_most_expr_in_config_entry
\* Mutation: the value is resolved under the incoming context.
ConfigEntryValue_keeps_context(config_entry, p, sd) ==
    IF contains_pos(config_entry.node.value, p)
    THEN inner_most_expr(config_entry.node.value, p, sd)
    ELSE <<None, None>>

ConfigEntryValue(config_entry, p, sd) ==
    IF contains_pos(config_entry.node.value, p)
    THEN inner_most_expr(config_entry.node.value, p, None)
    ELSE <<None, None>>

\* Mutation: the key is resolved from no context, like the value.
inner_most_expr_in_config_entry_resets_key(config_entry, p, sd) ==
    FirstMatch(walk_option_if_contains(config_entry.node.key, None),
               p, ConfigEntryValue(config_entry, p, sd))

\* Mutation: an entry that holds the position off key and value yields
\* the incoming context.
inner_most_expr_in_config_entry_keeps_context(config_entry, p, sd) ==
    FirstMatch(walk_option_if_contains(config_entry.node.key, sd),
               p, IF contains_pos(config_entry.node.value, p)
                  THEN inner_most_expr(config_entry.node.value, p, None)
                  ELSE <<None, sd>>)

inner_most_expr_in_config_entry(config_entry, p, sd) ==
    FirstMatch(walk_option_if_contains(config_entry.node.key, sd),
               p, ConfigEntryValue(config_entry, p, sd))

\* ------------------------------------------------ inner_most_expr_in_stmt
AnnotationIdentifier(ty) ==
    node_with_pos([tag |-> "Identifier", val |-> IdentifierOf(ty.node)],
                  ty.line, ty.column, ty.end_line, ty.end_column)

Stmt_Assign_walk(assign_stmt, p, sd) ==
    FirstMatch(walk_if_contains(assign_stmt.value, sd)
               \o walk_list_with_new_expr(assign_stmt.targets, sd, "Identifier"),
               p, <<None, sd>>)

\* Mutation: the annotation is returned only when it contains the position.
Stmt_Assign_checks_annotation(assign_stmt, p, sd) ==
    IF /\ assign_stmt.type_annotation # None
       /\ contains_pos(assign_stmt.type_annotation[1], p)
    THEN <<Some(AnnotationIdentifier(assign_stmt.type_annotation[1])), sd>>
    ELSE Stmt_Assign_walk(assign_stmt, p, sd)

Stmt_Assign(assign_stmt, p, sd) ==
    IF assign_stmt.type_annotation # None
    THEN <<Some(AnnotationIdentifier(assign_stmt.type_annotation[1])), sd>>
    ELSE Stmt_Assign_walk(assign_stmt, p, sd)

Stmt_TypeAlias(type_alias_stmt, p, sd) ==
    FirstMatch(walk_if_contains_with_new_expr(type_alias_stmt.type_name, sd, "Identifier"),
               p, <<None, sd>>)

Stmt_Expr(expr_stmt, p, sd) ==
    FirstMatch(walk_list_if_contains(expr_stmt.exprs, sd), p, <<None, sd>>)

Stmt_Unification(unification_stmt, p, sd) ==
    FirstMatch(walk_if_contains_with_new_expr(unification_stmt.target, sd, "Identifier")
               \o walk_if_contains_with_new_expr(unification_stmt.value, sd, "Schema"),
               p, <<None, sd>>)

Stmt_AugAssign(aug_assign_stmt, p, sd) ==
    FirstMatch(walk_if_contains(aug_assign_stmt.value, sd)
               \o walk_if_contains_with_new_expr(aug_assign_stmt.target, sd, "Identifier"),
               p, <<None, sd>>)

Stmt_Assert(assert_stmt, p, sd) ==
    FirstMatch(walk_if_contains(assert_stmt.test, sd)
               \o walk_option_if_contains(assert_stmt.if_cond, sd)
               \o walk_option_if_contains(assert_stmt.msg, sd),
               p, <<None, sd>>)

Stmt_If(if_stmt, p, sd) ==
    FirstMatch(walk_if_contains(if_stmt.cond, sd)
               \o walk_stmts(if_stmt.body, sd)
               \o walk_stmts(if_stmt.orelse, sd),
               p, <<None, sd>>)

Stmt_Schema(schema_stmt, p, sd) ==
    FirstMatch(walk_if_contains(build_identifier_from_string(schema_stmt.name), sd)
               \o walk_list_with_new_expr(schema_stmt.parent_name, sd, "Identifier")
               \o walk_list_with_new_expr(schema_stmt.for_host_name, sd, "Identifier")
               \o walk_list_with_new_expr(schema_stmt.mixins, sd, "Identifier")
               \o walk_stmts(schema_stmt.body, sd)
               \o walk_list_with_new_expr(schema_stmt.decorators, sd, "Call")
               \o walk_list_with_new_expr(schema_stmt.checks, sd, "Check"),
               p, <<None, sd>>)

Stmt_SchemaAttr(schema_attr_expr, p, sd) ==
    FirstMatch(walk_type(schema_attr_expr.ty, sd)
               \o walk_option_if_contains(schema_attr_expr.value, sd)
               \o walk_list_with_new_expr(schema_attr_expr.decorators, sd, "Call"),
               p, <<None, sd>>)

Stmt_Rule(rule_stmt, p, sd) ==
    FirstMatch(walk_list_with_new_expr(rule_stmt.parent_rules, sd, "Identifier")
               \o walk_list_with_new_expr(rule_stmt.decorators, sd, "Call")
               \o walk_list_with_new_expr(rule_stmt.checks, sd, "Check"),
               p, <<None, sd>>)

\* Mutation: an import yields none for the context too.
Stmt_Import_drops_context(import_stmt, p, sd) == <<None, None>>

Stmt_Import(import_stmt, p, sd) == <<None, sd>>

inner_most_expr_in_stmt(stmt, p, sd) ==
    CASE stmt.tag = "Assign"      -> Stmt_Assign(stmt.val, p, sd)
      [] stmt.tag = "TypeAlias"   -> Stmt_TypeAlias(stmt.val, p, sd)
      [] stmt.tag = "Expr"        -> Stmt_Expr(stmt.val, p, sd)
      [] stmt.tag = "Unification" -> Stmt_Unification(stmt.val, p, sd)
      [] stmt.tag = "AugAssign"   -> Stmt_AugAssign(stmt.val, p, sd)
      [] stmt.tag = "Assert"      -> Stmt_Assert(stmt.val, p, sd)
      [] stmt.tag = "If"          -> Stmt_If(stmt.val, p, sd)
      [] stmt.tag = "Schema"      -> Stmt_Schema(stmt.val, p, sd)
      [] stmt.tag = "SchemaAttr"  -> Stmt_SchemaAttr(stmt.val, p, sd)
      [] stmt.tag = "Rule"        -> Stmt_Rule(stmt.val, p, sd)
      [] stmt.tag = "Import"      -> Stmt_Import(stmt.val, p, sd)

\* ------------------------------------------------ apply_document_changes
\* A text is a sequence of characters; an lsp_types::Range is
\* [start, end], each [line, character], both counted from 0.
Newlines(t) == {i \in 1..Len(t) : t[i] = "\n"}

\* The offset at which line `line` of t starts.
LineStart(t, line) ==
    IF line = 0 THEN 0
    ELSE CHOOSE i \in Newlines(t) : Cardinality({j \in Newlines(t) : j <= i}) = line

\* from_lsp::text_range: the offsets of a range in the text it is given.
text_range(t, range) ==
    [start |-> LineStart(t, range.start.line) + range.start.character,
     end   |-> LineStart(t, range.end.line) + range.end.character]

\* String::replace_range(start..end, with)
replace_range(t, r, with) ==
    SubSeq(t, 1, r.start) \o with \o SubSeq(t, r.end + 1, Len(t))

apply_change(old_text, change) ==
    IF change.range # None
    THEN replace_range(old_text, text_range(old_text, change.range[1]), change.text)
    ELSE change.text

\* Mutation: every range is resolved against the text before the batch
\* (kept inside the current text).
RECURSIVE apply_stale(_, _, _)
apply_stale(original, current, changes) ==
    IF changes = <<>> THEN current
    ELSE LET change == Head(changes)
             Start(line) ==
                 IF line <= Cardinality(Newlines(original))
                 THEN LineStart(original, line) ELSE Len(original)
             Clamp(o) == IF o <= Len(current) THEN o ELSE Len(current)
             s == Clamp(Start(change.range[1].start.line)
                        + change.range[1].start.character)
             e == Clamp(Start(change.range[1].end.line)
                        + change.range[1].end.character)
         IN  apply_stale(original,
                         IF change.range = None THEN change.text
                         ELSE replace_range(current,
                                            [start |-> s, end |-> IF e < s THEN s ELSE e],
                                            change.text),
                         Tail(changes))

apply_document_changes_stale(old_text, changes) ==
    apply_stale(old_text, old_text, changes)

RECURSIVE apply_document_changes(_, _)
apply_document_changes(old_text, changes) ==
    IF changes = <<>> THEN old_text
    ELSE apply_document_changes(apply_change(old_text, Head(changes)), Tail(changes))

\* =================================================================
\* Inputs: syntax trees as the parser lays them out.  Offsets count
\* tokens; a token is one column wide, lines are LineWidth columns long,
\* lines count from 1 and columns from 0.  Sibling spans are disjoint and
\* lie inside their parent's span.
\* =================================================================
At(node, s, e) ==
    node_with_pos(node, (s \div LineWidth) + 1, s % LineWidth,
                        (e \div LineWidth) + 1, e % LineWidth)

StartOff(n) == (n.line - 1) * LineWidth + n.column
EndOff(n) == (n.end_line - 1) * LineWidth + n.end_column

PosAt(o) == [line |-> (o \div LineWidth) + 1, column |-> Some(o % LineWidth)]

\* Typed leaves: Node<Identifier>, Node<String>, and the terminal Exprs.
IdentNode(name, o) == At(IdentifierOf(name), o, o)
StringNode(name, o) == At(name, o, o)
Ident(name, o) == At([tag |-> "Identifier", val |-> IdentifierOf(name)], o, o)
Num(o) == At([tag |-> "NumberLit", val |-> [value |-> 1]], o, o)
Str(o) == At([tag |-> "StringLit", val |-> [value |-> "s"]], o, o)
NameConst(o) == At([tag |-> "NameConstantLit", val |-> [value |-> "True"]], o, o)
Missing(o) == At([tag |-> "Missing", val |-> [x |-> 0]], o, o)

\* A config entry spans from its key (its value when it has no key) to
\* the end of its value.
Entry(key, value) ==
    At([key |-> key, value |-> value, operation |-> "Union"],
       IF key = None THEN StartOff(value) ELSE StartOff(key[1]), EndOff(value))

ConfigOf(items, s, e) == At([tag |-> "Config", val |-> [items |-> items]], s, e)

SchemaOf(name, args, kwargs, config, s) ==
    At([tag |-> "Schema",
        val |-> [name |-> name, args |-> args, kwargs |-> kwargs, config |-> config]],
       s, EndOff(config))

KeywordNode(name, o) ==
    At([arg |-> IdentNode(name, o), value |-> Some(Num(o + 2))], o, o + 2)

ExprStmt(exprs) ==
    At([tag |-> "Expr", val |-> [exprs |-> exprs]],
       StartOff(exprs[1]), EndOff(exprs[Len(exprs)]))

\* S a { k : <child> }
Wrap_SchemaValue(o, child) ==
    SchemaOf(IdentNode("S", o), <<Num(o + 1)>>, <<>>,
             ConfigOf(<<Entry(Some(Ident("k", o + 4)), child)>>, o + 3, EndOff(child) + 1),
             o)

\* S kw=1 { <child> : 1 }
Wrap_SchemaKey(o, child) ==
    SchemaOf(IdentNode("S", o), <<>>, <<KeywordNode("kw", o + 1)>>,
             ConfigOf(<<Entry(Some(child), Num(EndOff(child) + 2))>>,
                      o + 4, EndOff(child) + 3),
             o)

\* { k : <child>  **1 }
Wrap_ConfigValue(o, child) ==
    ConfigOf(<<Entry(Some(Ident("k", o + 1)), child),
               Entry(None, Num(EndOff(child) + 2))>>,
             o, EndOff(child) + 3)

\* { <child> : 1 }
Wrap_ConfigKey(o, child) ==
    ConfigOf(<<Entry(Some(child), Num(EndOff(child) + 2))>>, o, EndOff(child) + 3)

\* if c : k : <child> else { **1 }
Wrap_IfEntryValue(o, child) ==
    LET e == EndOff(child)
    IN  At([tag |-> "ConfigIfEntry",
            val |-> [if_cond |-> Ident("c", o + 1),
                     items |-> <<Entry(Some(Ident("k", o + 2)), child)>>,
                     orelse |-> Some(ConfigOf(<<Entry(None, Num(e + 3))>>, e + 2, e + 4))]],
           o, e + 4)

\* [ 1 <child> ]
Wrap_List(o, child) ==
    At([tag |-> "List", val |-> [elts |-> <<Num(o + 1), child>>, ctx |-> "Load"]],
       o, EndOff(child) + 1)

\* { k : <child> for t in i }
Wrap_DictComp(o, child) ==
    LET e == EndOff(child)
    IN  At([tag |-> "DictComp",
            val |-> [entry |-> [key |-> Some(Ident("k", o + 1)), value |-> child,
                                operation |-> "Union"],
                     generators |-> <<At([targets |-> <<IdentNode("t", e + 1)>>,
                                          iter |-> Ident("i", e + 2), ifs |-> <<>>],
                                         e + 1, e + 2)>>]],
           o, e + 3)

\* lambda x : T { <child> }
Wrap_Lambda(o, child) ==
    At([tag |-> "Lambda",
        val |-> [args |-> Some(At([args |-> <<IdentNode("x", o + 1)>>,
                                   defaults |-> <<None>>,
                                   type_annotation_list |-> <<Some(StringNode("T", o + 3))>>],
                                  o + 1, o + 3)),
                 body |-> <<ExprStmt(<<child>>)>>,
                 return_type_str |-> None]],
       o, EndOff(child) + 1)

Wrappers ==
    {"SchemaValue", "SchemaKey", "ConfigValue", "ConfigKey",
     "IfEntryValue", "List", "DictComp", "Lambda"}

\* The offset of the child inside a wrapper that starts at o.
ChildOff(w, o) ==
    CASE w = "SchemaValue"  -> o + 6
      [] w = "SchemaKey"    -> o + 5
      [] w = "ConfigValue"  -> o + 3
      [] w = "ConfigKey"    -> o + 1
      [] w = "IfEntryValue" -> o + 4
      [] w = "List"         -> o + 2
      [] w = "DictComp"     -> o + 2
      [] w = "Lambda"       -> o + 4

Wrap(w, o, child) ==
    CASE w = "SchemaValue"  -> Wrap_SchemaValue(o, child)
      [] w = "SchemaKey"    -> Wrap_SchemaKey(o, child)
      [] w = "ConfigValue"  -> Wrap_ConfigValue(o, child)
      [] w = "ConfigKey"    -> Wrap_ConfigKey(o, child)
      [] w = "IfEntryValue" -> Wrap_IfEntryValue(o, child)
      [] w = "List"         -> Wrap_List(o, child)
      [] w = "DictComp"     -> Wrap_DictComp(o, child)
      [] w = "Lambda"       -> Wrap_Lambda(o, child)

\* The expression a spine of wrappers (outermost first) denotes, at o.
RECURSIVE Build(_, _)
Build(spine, o) ==
    IF spine = <<>> THEN Ident("x", o)
    ELSE Wrap(Head(spine), o, Build(Tail(spine), ChildOff(Head(spine), o)))

RECURSIVE SpinesUpTo(_)
SpinesUpTo(d) ==
    IF d = 0 THEN {<<>>}
    ELSE LET shorter == SpinesUpTo(d - 1)
         IN  shorter \cup {<<w>> \o s : w \in Wrappers, s \in shorter}

\* Node<Expr> of a typed node and back.
Untag(e) == node_with_pos(e.node.val, e.line, e.column, e.end_line, e.end_column)

\* d ( 1 )
CallNode(o) ==
    At([func |-> Ident("d", o), args |-> <<Num(o + 2)>>, keywords |-> <<>>], o, o + 3)

\* x if c , s
CheckNode(o) ==
    At([test |-> Ident("x", o), if_cond |-> Some(Ident("c", o + 2)),
        msg |-> Some(Str(o + 4))], o, o + 4)

\* for t in i if c
CompClauseNode(o) ==
    At([targets |-> <<IdentNode("t", o + 1)>>, iter |-> Ident("i", o + 3),
        ifs |-> <<Ident("c", o + 5)>>], o, o + 5)

\* x : T = 1
ArgumentsNode(o) ==
    At([args |-> <<IdentNode("x", o)>>, defaults |-> <<Some(Num(o + 4))>>,
        type_annotation_list |-> <<Some(StringNode("T", o + 2))>>], o, o + 4)

\* One expression of every other kind, its children terminals, at o.
WideExprs(o) ==
    { Ident("x", o), Num(o), Str(o), NameConst(o), Missing(o),
      \* v . a
      At([tag |-> "Selector",
          val |-> [value |-> Ident("v", o), attr |-> IdentNode("a", o + 2),
                   has_question |-> FALSE, ctx |-> "Load"]], o, o + 2),
      \* - x
      At([tag |-> "Unary", val |-> [op |-> "USub", operand |-> Ident("x", o + 1)]],
         o, o + 1),
      \* x + 1
      At([tag |-> "Binary",
          val |-> [left |-> Ident("x", o), op |-> "Add", right |-> Num(o + 2)]],
         o, o + 2),
      \* b if c else e
      At([tag |-> "If",
          val |-> [body |-> Ident("b", o), cond |-> Ident("c", o + 2),
                   orelse |-> Ident("e", o + 4)]], o, o + 4),
      \* f ( 1 , kw = 1 )
      At([tag |-> "Call",
          val |-> [func |-> Ident("f", o), args |-> <<Num(o + 2)>>,
                   keywords |-> <<KeywordNode("kw", o + 4)>>]], o, o + 7),
      \* ( x )
      At([tag |-> "Paren", val |-> [expr |-> Ident("x", o + 1)]], o, o + 2),
      \* all v in t { x if c }
      At([tag |-> "Quant",
          val |-> [target |-> Ident("t", o + 3),
                   variables |-> <<IdentNode("v", o + 1)>>, op |-> "All",
                   test |-> Ident("x", o + 5), if_cond |-> Some(Ident("c", o + 7)),
                   ctx |-> "Load"]], o, o + 8),
      \* if c : 1 else 1
      At([tag |-> "ListIfItem",
          val |-> [if_cond |-> Ident("c", o + 1), exprs |-> <<Num(o + 3)>>,
                   orelse |-> Some(Num(o + 5))]], o, o + 5),
      \* [ x for t in i if c ]
      At([tag |-> "ListComp",
          val |-> [elt |-> Ident("x", o + 1),
                   generators |-> <<CompClauseNode(o + 2)>>]], o, o + 8),
      \* * x
      At([tag |-> "Starred", val |-> [value |-> Ident("x", o + 1), ctx |-> "Load"]],
         o, o + 1),
      NewExpr("CompClause", CompClauseNode(o)),
      NewExpr("Check", CheckNode(o)),
      \* v [ l : u : s ]
      At([tag |-> "Subscript",
          val |-> [value |-> Ident("v", o), index |-> None,
                   lower |-> Some(Num(o + 2)), upper |-> Some(Num(o + 4)),
                   step |-> Some(Num(o + 6)), ctx |-> "Load",
                   has_question |-> FALSE]], o, o + 7),
      \* v [ i ]
      At([tag |-> "Subscript",
          val |-> [value |-> Ident("v", o), index |-> Some(Ident("i", o + 2)),
                   lower |-> None, upper |-> None, step |-> None, ctx |-> "Load",
                   has_question |-> FALSE]], o, o + 3),
      NewExpr("Keyword", KeywordNode("kw", o)),
      NewExpr("Arguments", ArgumentsNode(o)),
      \* x < 1 < y
      At([tag |-> "Compare",
          val |-> [left |-> Ident("x", o), ops |-> <<"Lt", "Lt">>,
                   comparators |-> <<Num(o + 2), Ident("y", o + 4)>>]], o, o + 4),
      \* " s ${ x } "
      At([tag |-> "JoinedString",
          val |-> [is_long_string |-> FALSE,
                   values |-> <<Str(o + 1),
                                At([tag |-> "FormattedValue",
                                    val |-> [is_long_string |-> FALSE,
                                             value |-> Ident("x", o + 3),
                                             format_spec |-> None]],
                                   o + 2, o + 4)>>]], o, o + 5) }

\* Every input starts at offset 1, so that offset 0 lies before it.
ExprInputs == {Build(s, 1) : s \in SpinesUpTo(MaxDepth)} \cup WideExprs(1)

\* ---------------------------------------------------------------- types
\* A type shape is [k |-> kind, ...]; BuildTy lays it out at o:
\* [ T ], { K : V }, A | B; a leaf is one token.
TyLeaves ==
    {[k |-> "Any"], [k |-> "Named"], [k |-> "Basic"], [k |-> "Literal"]}

RECURSIVE TyShapes(_)
TyShapes(d) ==
    IF d = 0 THEN TyLeaves
    ELSE LET S == TyShapes(d - 1)
             O == {None} \cup {Some(t) : t \in S}
             K == {None, Some([k |-> "Basic"]), Some([k |-> "Named"])}
         IN  S \cup {[k |-> "List", inner |-> i] : i \in O}
               \cup {[k |-> "Dict", key |-> kk, value |-> v] : kk \in K, v \in O}
               \cup {[k |-> "Union", elems |-> <<a, b>>] :
                        a \in {[k |-> "Named"], [k |-> "Basic"]}, b \in S}

RECURSIVE BuildTy(_, _)
BuildTy(shape, o) ==
    CASE shape.k = "Any"     -> At([tag |-> "Any", val |-> [x |-> 0]], o, o)
      [] shape.k = "Named"   -> At([tag |-> "Named", val |-> IdentifierOf("Foo")], o, o)
      [] shape.k = "Basic"   -> At([tag |-> "Basic", val |-> [name |-> "str"]], o, o)
      [] shape.k = "Literal" -> At([tag |-> "Literal", val |-> [value |-> 1]], o, o)
      [] shape.k = "List" ->
            LET inner == [i \in 1..Len(shape.inner) |-> BuildTy(shape.inner[i], o + 1)]
                e == IF inner = None THEN o ELSE EndOff(inner[1])
            IN  At([tag |-> "List", val |-> [inner_type |-> inner]], o, e + 1)
      [] shape.k = "Dict" ->
            LET key == [i \in 1..Len(shape.key) |-> BuildTy(shape.key[i], o + 1)]
                colon == IF key = None THEN o + 1 ELSE EndOff(key[1]) + 1
                value == [i \in 1..Len(shape.value) |->
                            BuildTy(shape.value[i], colon + 1)]
                e == IF value = None THEN colon ELSE EndOff(value[1])
            IN  At([tag |-> "Dict", val |-> [key_type |-> key, value_type |-> value]],
                   o, e + 1)
      [] shape.k = "Union" ->
            LET a == BuildTy(shape.elems[1], o)
                b == BuildTy(shape.elems[2], EndOff(a) + 2)
            IN  At([tag |-> "Union", val |-> [type_elements |-> <<a, b>>]],
                   o, EndOff(b))

TypeInputs == {BuildTy(t, 1) : t \in TyShapes(MaxTypeDepth)}

\* ----------------------------------------------------------- statements
\* The operand of a statement: a leaf or one constructor around a leaf.
Operands(o) == {Build(sp, o) : sp \in SpinesUpTo(1)}

\* t : T = <v>   /   t = <v>
AssignStmt(o, annotated, v) ==
    At([tag |-> "Assign",
        val |-> [targets |-> <<IdentNode("t", o)>>, value |-> v,
                 type_annotation |->
                     IF annotated THEN Some(StringNode("T", o + 2)) ELSE None]],
       o, EndOff(v))

\* a : <ty> = x @d(1)
SchemaAttrStmt(o, ty) ==
    LET e == EndOff(ty)
    IN  At([tag |-> "SchemaAttr",
            val |-> [name |-> StringNode("a", o), ty |-> ty,
                     value |-> Some(Ident("x", e + 2)),
                     decorators |-> <<CallNode(e + 4)>>, is_optional |-> FALSE]],
           o, e + 7)

StmtInputs ==
    LET o == 1
    IN  {AssignStmt(o, a, v) : a \in BOOLEAN, v \in Operands(o + 4)}
        \cup {SchemaAttrStmt(o, BuildTy(t, o + 2)) : t \in TyShapes(1)}
        \* <v> , 1
        \cup {At([tag |-> "Expr", val |-> [exprs |-> <<v, Num(EndOff(v) + 2)>>]],
                 o, EndOff(v) + 2) : v \in Operands(o)}
        \* t : S 1 { k : <v> }
        \cup {At([tag |-> "Unification",
                  val |-> [target |-> IdentNode("t", o),
                           value |-> Untag(Wrap_SchemaValue(o + 2, v))]],
                 o, EndOff(v) + 1) : v \in Operands(o + 8)}
        \* t += <v>
        \cup {At([tag |-> "AugAssign",
                  val |-> [target |-> IdentNode("t", o), op |-> "Add", value |-> v]],
                 o, EndOff(v)) : v \in Operands(o + 2)}
        \* assert <v> if c , s
        \cup {At([tag |-> "Assert",
                  val |-> [test |-> v, if_cond |-> Some(Ident("c", EndOff(v) + 2)),
                           msg |-> Some(Str(EndOff(v) + 4))]],
                 o, EndOff(v) + 4) : v \in Operands(o + 1)}
        \* if c : t : T = 1 else : <v>
        \cup {At([tag |-> "If",
                  val |-> [cond |-> Ident("c", o + 1),
                           body |-> <<AssignStmt(o + 3, TRUE, Num(o + 7))>>,
                           orelse |-> <<ExprStmt(<<v>>)>>]],
                 o, EndOff(v)) : v \in Operands(o + 10)}
        \cup { \* type N = int
               At([tag |-> "TypeAlias",
                   val |-> [type_name |-> IdentNode("N", o + 1),
                            type_value |-> StringNode("int", o + 3)]], o, o + 3),
               \* schema Sch [ H ] ( P ) : mixin M  a : { : Foo } = x @d(1)
               \*   @d(1)  check: x if c, s
               At([tag |-> "Schema",
                   val |-> [name |-> StringNode("Sch", o + 1),
                            parent_name |-> Some(IdentNode("P", o + 5)),
                            for_host_name |-> Some(IdentNode("H", o + 3)),
                            mixins |-> <<IdentNode("M", o + 7)>>,
                            body |-> <<SchemaAttrStmt(o + 9,
                                         BuildTy([k |-> "Dict", key |-> None,
                                                  value |-> Some([k |-> "Named"])],
                                                 o + 11))>>,
                            decorators |-> <<CallNode(o + 24)>>,
                            checks |-> <<CheckNode(o + 29)>>]], o, o + 33),
               \* rule R ( Q ) : @d(1)  x if c, s
               At([tag |-> "Rule",
                   val |-> [name |-> StringNode("R", o + 1),
                            parent_rules |-> <<IdentNode("Q", o + 3)>>,
                            decorators |-> <<CallNode(o + 5)>>,
                            checks |-> <<CheckNode(o + 10)>>]], o, o + 14),
               \* import p
               At([tag |-> "Import", val |-> [path |-> "p", name |-> "p"]], o, o + 1) }

\* A schema instantiation elsewhere in the file, as an incoming context.
EnclosingSchema ==
    SchemaOf(IdentNode("Enclosing", 0), <<>>, <<>>, ConfigOf(<<>>, 0, 0), 0)

Contexts == {None, Some(EnclosingSchema)}

\* The positions a query on n is made at: every offset of its span, the
\* one before and the one after.
Positions(n) == {PosAt(o) : o \in (StartOff(n) - 1) .. (EndOff(n) + 1)}

\* =================================================================
\* The structure of a tree, for stating the properties: the expression
\* nodes below an expression or statement, with the typed fragments
\* (names, keywords, clauses, arguments) as the expressions the
\* navigators make of them.
\* =================================================================
Range(seq) == {seq[i] : i \in 1..Len(seq)}

NewExprs(kind, list) == {NewExpr(kind, list[i]) : i \in 1..Len(list)}

EntryExprs(items) ==
    UNION {Range(items[i].node.key) \cup {items[i].node.value} : i \in 1..Len(items)}

RECURSIVE StmtChildren(_)
ChildExprs(e) ==
    LET tag == e.node.tag
        v == e.node.val
    IN  CASE tag = "Selector" -> {NewExpr("Identifier", v.attr), v.value}
          [] tag = "Schema" ->
                {NewExpr("Identifier", v.name), v.config} \cup Range(v.args)
                \cup NewExprs("Keyword", v.kwargs)
          [] tag = "Config" -> EntryExprs(v.items)
          [] tag = "Unary" -> {v.operand}
          [] tag = "Binary" -> {v.left, v.right}
          [] tag = "If" -> {v.body, v.cond, v.orelse}
          [] tag = "Call" ->
                Range(v.args) \cup NewExprs("Keyword", v.keywords) \cup {v.func}
          [] tag = "Paren" -> {v.expr}
          [] tag = "Quant" ->
                {v.target, v.test} \cup NewExprs("Identifier", v.variables)
                \cup Range(v.if_cond)
          [] tag = "List" -> Range(v.elts)
          [] tag = "ListIfItem" -> {v.if_cond} \cup Range(v.exprs) \cup Range(v.orelse)
          [] tag = "ListComp" -> {v.elt} \cup NewExprs("CompClause", v.generators)
          [] tag = "Starred" -> {v.value}
          [] tag = "DictComp" ->
                Range(v.entry.key) \cup {v.entry.value}
                \cup NewExprs("CompClause", v.generators)
          [] tag = "ConfigIfEntry" ->
                {v.if_cond} \cup EntryExprs(v.items) \cup Range(v.orelse)
          [] tag = "CompClause" ->
                NewExprs("Identifier", v.targets) \cup {v.iter} \cup Range(v.ifs)
          [] tag = "Check" -> {v.test} \cup Range(v.if_cond) \cup Range(v.msg)
          [] tag = "Lambda" ->
                NewExprs("Arguments", v.args)
                \cup UNION {StmtChildren(v.body[i].node) : i \in 1..Len(v.body)}
          [] tag = "Subscript" ->
                {v.value} \cup Range(v.index) \cup Range(v.lower)
                \cup Range(v.upper) \cup Range(v.step)
          [] tag = "Keyword" -> {NewExpr("Identifier", v.arg)} \cup Range(v.value)
          [] tag = "Arguments" ->
                NewExprs("Identifier", v.args) \cup Range(Flatten(v.defaults))
                \cup {build_identifier_from_string(t) :
                        t \in Range(Flatten(v.type_annotation_list))}
          [] tag = "Compare" -> {v.left} \cup Range(v.comparators)
          [] tag = "JoinedString" -> Range(v.values)
          [] tag = "FormattedValue" -> {v.value}
          [] OTHER -> {}

\* The expressions directly below a statement (through nested statements).
StmtChildren(stmt) ==
    LET tag == stmt.tag
        v == stmt.val
        Nested(body) == UNION {StmtChildren(body[i].node) : i \in 1..Len(body)}
    IN  CASE tag = "Assign" ->
                {v.value} \cup NewExprs("Identifier", v.targets)
                \cup {AnnotationIdentifier(t) : t \in Range(v.type_annotation)}
          [] tag = "TypeAlias" -> {NewExpr("Identifier", v.type_name)}
          [] tag = "Expr" -> Range(v.exprs)
          [] tag = "Unification" ->
                {NewExpr("Identifier", v.target), NewExpr("Schema", v.value)}
          [] tag = "AugAssign" -> {v.value, NewExpr("Identifier", v.target)}
          [] tag = "Assert" -> {v.test} \cup Range(v.if_cond) \cup Range(v.msg)
          [] tag = "If" -> {v.cond} \cup Nested(v.body) \cup Nested(v.orelse)
          [] tag = "Schema" ->
                {build_identifier_from_string(v.name)}
                \cup NewExprs("Identifier", v.parent_name)
                \cup NewExprs("Identifier", v.for_host_name)
                \cup NewExprs("Identifier", v.mixins)
                \cup Nested(v.body)
                \cup NewExprs("Call", v.decorators) \cup NewExprs("Check", v.checks)
          [] tag = "SchemaAttr" ->
                Range(v.value) \cup NewExprs("Call", v.decorators)
          [] tag = "Rule" ->
                NewExprs("Identifier", v.parent_rules)
                \cup NewExprs("Call", v.decorators) \cup NewExprs("Check", v.checks)
          [] OTHER -> {}

\* e and every expression below it.
RECURSIVE SubExprs(_)
SubExprs(e) == {e} \cup UNION {SubExprs(c) : c \in ChildExprs(e)}

ProperSubExprs(e) == UNION {SubExprs(c) : c \in ChildExprs(e)}

IsSchema(e) == e.node.tag = "Schema"

\* The schema instantiations in or below e whose config body contains p.
SchemasAround(e, p) ==
    {x \in SubExprs(e) : IsSchema(x) /\ contains_pos(x.node.val.config, p)}

\* The entries of a Config or ConfigIfEntry expression.
ItemsOf(e) == e.node.val.items

OnKeyOf(item, p) == item.node.key # None /\ contains_pos(item.node.key[1], p)
OnValueOf(item, p) == contains_pos(item.node.value, p)


\* ------------------------------------------------------ text changes
\* The editor's side of a change notification: it edits its own buffer
\* and describes each edit against the buffer as the edits before it
\* left it.
Chars == {"a", "\n"}
Inserted == {<<>>, <<"a">>, <<"\n">>}

\* The offset a [line, character] of buffer b denotes, if any.
OffsetsOf(b, lp) ==
    {o \in 0..Len(b) :
        /\ Cardinality({j \in 1..o : b[j] = "\n"}) = lp.line
        /\ \E from \in 0..o :
              /\ from = 0 \/ b[from] = "\n"
              /\ \A j \in (from + 1)..o : b[j] # "\n"
              /\ o - from = lp.character}

OffsetOf(b, lp) == CHOOSE o \in OffsetsOf(b, lp) : TRUE

LspPositions(b) ==
    {lp \in [line : 0..Len(b), character : 0..Len(b)] : OffsetsOf(b, lp) # {}}

\* The buffer after one edit: what lies before the range, the inserted
\* text, what lies after the range.
BufferEdit(b, c) ==
    IF c.range = None THEN c.text
    ELSE LET s == OffsetOf(b, c.range[1].start)
             e == OffsetOf(b, c.range[1].end)
             n == Len(c.text)
         IN  [i \in 1..(s + n + Len(b) - e) |->
                 IF i <= s THEN b[i]
                 ELSE IF i <= s + n THEN c.text[i - s]
                 ELSE b[i - s - n + e]]

RECURSIVE BufferAfter(_, _, _)
BufferAfter(b, cs, i) ==
    IF i > Len(cs) THEN b ELSE BufferAfter(BufferEdit(b, cs[i]), cs, i + 1)

\* The edits the editor can make to buffer b.
Edits(b) ==
    {c \in [range : {None}, text : Inserted]
           \cup [range : {Some(r) : r \in [start : LspPositions(b),
                                            end : LspPositions(b)]},
                 text : Inserted] :
        /\ c.range # None =>
              OffsetOf(b, c.range[1].start) <= OffsetOf(b, c.range[1].end)
        /\ Len(BufferEdit(b, c)) <= MaxTextLen}

\* The notifications of at most n edits the editor can send from buffer b.
RECURSIVE Notifications(_, _)
Notifications(b, n) ==
    {<<>>} \cup
    (IF n = 0 THEN {}
     ELSE UNION {{<<c>> \o rest : rest \in Notifications(BufferEdit(b, c), n - 1)} :
                    c \in Edits(b)})

\* ------------------------------------------------------------ actions
Init ==
    /\ op = "idle"
    /\ tree = None
    /\ pos = None
    /\ schema_def = None
    /\ result = None
    /\ text = <<>>
    /\ prev_text = <<>>
    /\ content_changes = <<>>

InnerMostExpr ==
    /\ op = "idle"
    /\ \E e \in ExprInputs : \E p \in Positions(e) : \E c \in Contexts :
         /\ tree' = e
         /\ pos' = p
         /\ schema_def' = c
         /\ result' = inner_most_expr(e, p, c)
    /\ op' = "expr"
    /\ UNCHANGED <<text, prev_text, content_changes>>

InnerMostExprInStmt ==
    /\ op = "idle"
    /\ \E st \in StmtInputs : \E p \in Positions(st) : \E c \in Contexts :
         /\ tree' = st
         /\ pos' = p
         /\ schema_def' = c
         /\ result' = inner_most_expr_in_stmt(st.node, p, c)
    /\ op' = "stmt"
    /\ UNCHANGED <<text, prev_text, content_changes>>

BuildIdentifierFromTyString ==
    /\ op = "idle"
    /\ \E ty \in TypeInputs : \E p \in Positions(ty) :
         /\ tree' = ty
         /\ pos' = p
         /\ result' = build_identifier_from_ty_string(ty, p)
    /\ op' = "type"
    /\ schema_def' = None
    /\ UNCHANGED <<text, prev_text, content_changes>>

ApplyDocumentChanges ==
    /\ op = "idle"
    /\ \E changes \in Notifications(text, MaxChanges) :
         /\ content_changes' = changes
         /\ text' = apply_document_changes(text, changes)
    /\ prev_text' = text
    /\ op' = "doc"
    /\ UNCHANGED <<tree, pos, schema_def, result>>

\* The reply is sent; the server waits for the next request.
Reply ==
    /\ op # "idle"
    /\ op' = "idle"
    /\ tree' = None /\ pos' = None /\ schema_def' = None /\ result' = None
    /\ prev_text' = <<>> /\ content_changes' = <<>>
    /\ UNCHANGED text

\* The navigators never read the text buffer and apply_document_changes
\* never reads a tree: the two are checked as separate specifications.
Next ==
    \/ InnerMostExpr
    \/ InnerMostExprInStmt
    \/ BuildIdentifierFromTyString
    \/ Reply

Spec == Init /\ [][Next]_vars

NextDoc ==
    \/ ApplyDocumentChanges
    \/ Reply

SpecDoc == Init /\ [][NextDoc]_vars

\* =================================================================
\* Properties
\* =================================================================
Body(s) == s.node.val.config

IsConfigLike(e) == e.node.tag \in {"Config", "ConfigIfEntry"}

\* The entries of c that contain p (at most one: entries are disjoint).
HitItems(c, p) == {it \in Range(ItemsOf(c)) : contains_pos(it, p)}

\* p lies inside a schema instantiation strictly below e.
NestedSchemaAt(e, p) ==
    \E x \in ProperSubExprs(e) : IsSchema(x) /\ contains_pos(x, p)

\* p lies in a config entry in or below e, outside that entry's key.
OffKeyEntryAt(e, p) ==
    \E x \in SubExprs(e) :
        /\ IsConfigLike(x)
        /\ \E it \in Range(ItemsOf(x)) : contains_pos(it, p) /\ ~OnKeyOf(it, p)

\* p lies in the config body of schema instantiation s and in no schema
\* instantiation nested in that body.
InOwnBody(s, p) ==
    /\ IsSchema(s)
    /\ contains_pos(Body(s), p)
    /\ ~NestedSchemaAt(Body(s), p)

\* p lies on the key of entry it, and in no config entry inside that key
\* other than on its key again.
OnPlainKeyOf(it, p) == OnKeyOf(it, p) /\ ~OffKeyEntryAt(it.node.key[1], p)

\* The entries a query on a Config, ConfigIfEntry or Schema root meets first.
RootItems ==
    IF IsConfigLike(tree) THEN Range(ItemsOf(tree))
    ELSE IF IsSchema(tree) THEN Range(ItemsOf(Body(tree)))
    ELSE {}

\* C1: a position outside the root expression's span yields (none, none),
\* whatever context was passed in.
C1_OutsideRoot ==
    (op = "expr" /\ ~contains_pos(tree, pos)) => result = <<None, None>>

C1_Witness ==
    /\ op = "expr"
    /\ ~contains_pos(tree, pos)
    /\ schema_def = Some(EnclosingSchema)
    /\ result = <<None, None>>

\* C2 as stated: for a position in the config body of schema instantiation
\* S and in no schema instantiation nested in it, the returned context is S.
C2_Original ==
    (op = "expr" /\ InOwnBody(tree, pos)) => result[2] = Some(tree)

\* C2 as amended: for such a position the returned context is S when the
\* position is on no entry of the body (the body itself is the node
\* found) or on an entry's key, in no config entry inside that key; it is
\* none when the position is in an entry but not on its key.
C2_OwnBody ==
    (op = "expr" /\ InOwnBody(tree, pos)) =>
        LET hit == HitItems(Body(tree), pos)
        IN  /\ hit = {} => result = <<Some(Body(tree)), Some(tree)>>
            /\ \A it \in hit :
                  /\ OnPlainKeyOf(it, pos) => result[2] = Some(tree)
                  /\ ~OnKeyOf(it, pos) => result[2] = None

C2_Witness ==
    /\ op = "expr"
    /\ InOwnBody(tree, pos)
    /\ schema_def = Some(EnclosingSchema)
    /\ \E it \in HitItems(Body(tree), pos) : OnPlainKeyOf(it, pos)
    /\ result[2] = Some(tree)

\* C3 as stated: for a position anywhere inside an entry value that is a
\* schema instantiation I, the returned context is I.
C3_Original ==
    (op = "expr" /\ IsSchema(tree)) =>
        \A it \in RootItems :
            (IsSchema(it.node.value) /\ contains_pos(it.node.value, pos))
                => result[2] = Some(it.node.value)

\* C3 as amended: for such a position the returned context is never the
\* outer schema instantiation; it is I when the position lies in I's own
\* config body on no entry or on an entry's key (in no config entry inside
\* that key), and none when it lies on I's name or arguments, outside
\* every schema instantiation's config body.
C3_InnerSchemaValue ==
    (op = "expr" /\ IsSchema(tree)) =>
        \A it \in RootItems :
            LET I == it.node.value
            IN  (IsSchema(I) /\ contains_pos(I, pos)) =>
                  /\ result[2] # Some(tree)
                  /\ (/\ InOwnBody(I, pos)
                      /\ \A e \in HitItems(Body(I), pos) : OnPlainKeyOf(e, pos))
                        => result[2] = Some(I)
                  /\ SchemasAround(I, pos) = {} => result[2] = None

C3_Witness ==
    /\ op = "expr"
    /\ IsSchema(tree)
    /\ schema_def = Some(EnclosingSchema)
    /\ \E it \in RootItems :
          /\ IsSchema(it.node.value)
          /\ InOwnBody(it.node.value, pos)
          /\ \E e \in HitItems(Body(it.node.value), pos) : OnPlainKeyOf(e, pos)
          /\ result[2] = Some(it.node.value)

\* C4 as stated: on a Config or ConfigIfEntry resolved under context c, a
\* position on an entry's key, with no schema instantiation's config body
\* inside the key around it, yields context c.
C4_Original ==
    (op = "expr" /\ IsConfigLike(tree)) =>
        \A it \in RootItems :
            (OnKeyOf(it, pos) /\ SchemasAround(it.node.key[1], pos) = {})
                => result[2] = schema_def

\* C4 as amended: the same, provided also that the position lies in no
\* config entry inside the key other than on that entry's key.
C4_KeyKeepsContext ==
    (op = "expr" /\ IsConfigLike(tree)) =>
        \A it \in RootItems :
            (OnPlainKeyOf(it, pos) /\ SchemasAround(it.node.key[1], pos) = {})
                => result[2] = schema_def

C4_Witness ==
    /\ op = "expr"
    /\ IsConfigLike(tree)
    /\ schema_def = Some(EnclosingSchema)
    /\ \E it \in RootItems :
          /\ OnPlainKeyOf(it, pos)
          /\ it.node.key[1].node.tag = "Lambda"
    /\ result[2] = schema_def

\* C5 as stated: a position inside an entry value that is not a schema
\* instantiation yields context none.
C5_Original ==
    op = "expr" =>
        \A it \in RootItems :
            (OnValueOf(it, pos) /\ ~IsSchema(it.node.value)) => result[2] = None

\* C5 as amended: for such a position the context is none, unless the
\* position lies in the config body of a schema instantiation inside the
\* value: then the context is one of those, never the incoming one.
C5_ValueResetsContext ==
    op = "expr" =>
        \A it \in RootItems :
            (OnValueOf(it, pos) /\ ~IsSchema(it.node.value)) =>
                result[2] \in {None}
                    \cup {Some(x) : x \in SchemasAround(it.node.value, pos)}

C5_Witness ==
    /\ op = "expr"
    /\ IsConfigLike(tree)
    /\ schema_def = Some(EnclosingSchema)
    /\ \E it \in RootItems :
          /\ OnValueOf(it, pos)
          /\ it.node.value.node.tag = "List"
          /\ SchemasAround(it.node.value, pos) = {}
    /\ result[1] # None
    /\ result[2] = None

\* The expressions of the tree a query was made on.
TreeExprs ==
    IF op = "expr" THEN SubExprs(tree)
    ELSE IF op = "stmt" THEN UNION {SubExprs(c) : c \in StmtChildren(tree.node)}
    ELSE {}

IsAnnotatedAssign(st) ==
    st.node.tag = "Assign" /\ st.node.val.type_annotation # None

\* C6: for an Assign statement with a type annotation and a position inside
\* the statement, the result is a one-segment identifier with empty package
\* path, named by the annotation and spanning it, with the incoming
\* context; this also when the position is inside the assigned value.
C6_AnnotationFirst ==
    (op = "stmt" /\ IsAnnotatedAssign(tree) /\ contains_pos(tree, pos)) =>
        LET ty == tree.node.val.type_annotation[1]
        IN  /\ result[1] # None
            /\ result[1][1].node.tag = "Identifier"
            /\ result[1][1].node.val.names = <<ty.node>>
            /\ result[1][1].node.val.pkgpath = ""
            /\ SameSpan(result[1][1], ty)
            /\ result[2] = schema_def

C6_Witness ==
    /\ op = "stmt"
    /\ IsAnnotatedAssign(tree)
    /\ contains_pos(tree.node.val.value, pos)
    /\ tree.node.val.value.node.tag = "Schema"
    /\ schema_def = Some(EnclosingSchema)
    /\ result[1] # None
    /\ result[1][1].node.val.names = <<"T">>
    /\ result[2] = schema_def

\* C7 as stated: an identifier returned by the statement or expression
\* navigator spans the queried position.
C7_IdentifierSpansPosition ==
    (/\ op \in {"stmt", "expr"}
     /\ contains_pos(tree, pos)
     /\ result[1] # None
     /\ result[1][1].node.tag = "Identifier")
        => contains_pos(result[1][1], pos)

\* C8: a query inside a DictComp yields the DictComp itself with the
\* incoming context, and no query on an expression or statement yields a
\* node from below a DictComp of the tree.
C8_DictCompTerminal ==
    /\ (op = "expr" /\ tree.node.tag = "DictComp" /\ contains_pos(tree, pos))
          => result = <<Some(tree), schema_def>>
    /\ (op \in {"expr", "stmt"} /\ result[1] # None) =>
          \A d \in TreeExprs :
              d.node.tag = "DictComp" => result[1][1] \notin ProperSubExprs(d)

C8_Witness ==
    /\ op = "expr"
    /\ tree.node.tag # "DictComp"
    /\ \E d \in ProperSubExprs(tree) :
          /\ d.node.tag = "DictComp"
          /\ contains_pos(d.node.val.entry.value, pos)
          /\ result[1] = Some(d)

\* The component types directly below a type.
TypeChildren(ty) ==
    CASE ty.node.tag = "List" -> Range(ty.node.val.inner_type)
      [] ty.node.tag = "Dict" ->
            Range(ty.node.val.key_type) \cup Range(ty.node.val.value_type)
      [] ty.node.tag = "Union" -> Range(ty.node.val.type_elements)
      [] OTHER -> {}

RECURSIVE TypeParts(_)
TypeParts(ty) == {ty} \cup UNION {TypeParts(c) : c \in TypeChildren(ty)}

\* The innermost components of ty that contain p.
InnermostTypes(ty, p) ==
    {t \in TypeParts(ty) :
        /\ contains_pos(t, p)
        /\ \A c \in TypeChildren(t) : ~contains_pos(c, p)}

\* What identifier_from_type is to return for ty at p.
IsIdentifierOfType(r, ty, p) ==
    LET named == {t \in InnermostTypes(ty, p) : t.node.tag = "Named"}
    IN  IF named = {} THEN r = None
        ELSE /\ r # None
             /\ \E t \in named :
                   /\ r[1].node = [tag |-> "Identifier", val |-> t.node.val]
                   /\ SameSpan(r[1], t)

\* C9: identifier_from_type yields none when the position is outside the
\* type or its innermost component there is not a Named type; otherwise
\* the identifier of the innermost Named type, with exactly its span.  The
\* schema-attribute arm yields the same for its type, under the incoming
\* context.
C9_InnermostNamedType ==
    /\ op = "type" => IsIdentifierOfType(result, tree, pos)
    /\ (/\ op = "stmt"
        /\ tree.node.tag = "SchemaAttr"
        /\ contains_pos(tree.node.val.ty, pos))
          => /\ IsIdentifierOfType(result[1], tree.node.val.ty, pos)
             /\ result[2] = schema_def

C9_Witness ==
    /\ op = "type"
    /\ tree.node.tag = "Dict"
    /\ tree.node.val.key_type # None
    /\ tree.node.val.value_type # None
    /\ tree.node.val.value_type[1].node.tag = "List"
    /\ result # None
    /\ result[1].node.val.names = <<"Foo">>
    /\ \E t \in TypeChildren(tree.node.val.value_type[1]) : SameSpan(result[1], t)
    /\ ~SameSpan(result[1], tree)

\* C10: the text after a batch of changes is the editor's buffer after
\* the same edits made one after another, each against the buffer the edits
\* before it left; the text before a change without range has no part in
\* it, and when the last change has no range the text is that change's
\* text.
C10_SequentialBuffer ==
    op = "doc" =>
        /\ text = BufferAfter(prev_text, content_changes, 1)
        /\ \A i \in 1..Len(content_changes) :
              content_changes[i].range = None =>
                  /\ text = BufferAfter(content_changes[i].text, content_changes, i + 1)
                  /\ i = Len(content_changes) => text = content_changes[i].text

C10_Witness ==
    /\ op = "doc"
    /\ Len(content_changes) = 2
    /\ content_changes[1].range # None
    /\ content_changes[2].range # None
    /\ content_changes[2].range[1].start.line > Cardinality(Newlines(prev_text))
    /\ content_changes[2].text # <<>>
    /\ text = BufferAfter(prev_text, content_changes, 1)

\* st and the statements nested in it (If branches, Schema bodies).
RECURSIVE StmtsIn(_)
StmtsIn(st) ==
    LET v == st.node.val
        Below(body) == UNION {StmtsIn(body[i]) : i \in 1..Len(body)}
    IN  {st} \cup
        CASE st.node.tag = "If" -> Below(v.body) \cup Below(v.orelse)
          [] st.node.tag = "Schema" -> Below(v.body)
          [] OTHER -> {}

\* The statement navigator searches st for a child at p and finds none:
\* no annotated Assign answers before the search, and no expression,
\* name or type annotation that st or a statement nested in it walks
\* contains p.
FindsNoChild(st, p) ==
    /\ ~IsAnnotatedAssign(st)
    /\ \A n \in StmtsIn(st) :
          /\ contains_pos(n, p) => ~IsAnnotatedAssign(n)
          /\ n.node.tag = "SchemaAttr" => ~contains_pos(n.node.val.ty, p)
    /\ \A c \in StmtChildren(st.node) : ~contains_pos(c, p)

\* C11 as stated: when the statement navigator finds no child containing
\* the position, both outputs are none, whatever context was passed in.
C11_Original ==
    (op = "stmt" /\ FindsNoChild(tree, pos)) => result = <<None, None>>

\* C11 as amended: when the statement navigator finds no child containing
\* the position, the node is none and the context is the one passed in.
C11_NoChildKeepsContext ==
    (op = "stmt" /\ FindsNoChild(tree, pos)) => result = <<None, schema_def>>

C11_Witness ==
    /\ op = "stmt"
    /\ tree.node.tag = "Rule"
    /\ contains_pos(tree, pos)
    /\ FindsNoChild(tree, pos)
    /\ schema_def = Some(EnclosingSchema)
    /\ result = <<None, schema_def>>

\* C12: a query that starts from context none returns as context only a
\* schema instantiation of the tree whose config body contains the
\* position (so never one with the position on its name, arguments or
\* keyword arguments), and never one with the position in an entry of its
\* body off that entry's key: descending into an entry value resets the
\* context.
C12_ContextIsEnclosingBody ==
    (op \in {"expr", "stmt"} /\ schema_def = None /\ result[2] # None) =>
        LET x == result[2][1]
        IN  /\ x \in TreeExprs
            /\ IsSchema(x)
            /\ contains_pos(Body(x), pos)
            /\ \A it \in HitItems(Body(x), pos) : OnKeyOf(it, pos)

C12_Witness ==
    /\ op = "expr"
    /\ schema_def = None
    /\ IsSchema(tree)
    /\ \E it \in HitItems(Body(tree), pos) : OnValueOf(it, pos)
    /\ result[2] # None
    /\ result[2][1] \in ProperSubExprs(tree)
    /\ \E it \in HitItems(Body(result[2][1]), pos) : OnKeyOf(it, pos)

\* The kinds that hand the context on unchanged, and the terminals.
PassThroughKinds ==
    {"Call", "Check", "Quant", "CompClause", "Subscript", "Keyword",
     "Arguments", "Compare", "Lambda", "ListComp", "ListIfItem", "List",
     "Unary", "Binary", "If", "Paren", "Starred", "JoinedString",
     "FormattedValue", "Selector"}

TerminalKinds ==
    {"Identifier", "NumberLit", "StringLit", "NameConstantLit", "Missing"}

IsPassThrough(e) ==
    \A x \in SubExprs(e) : x.node.tag \in PassThroughKinds \cup TerminalKinds

\* C13: on an expression made only of pass-through kinds and terminals
\* (a Lambda with its body statements included), a query at a position
\* inside it returns the incoming context, whichever child is resolved
\* and also when the expression itself is the node found.
C13_PassThrough ==
    (op = "expr" /\ contains_pos(tree, pos) /\ IsPassThrough(tree))
        => result[2] = schema_def

C13_Witness ==
    /\ op = "expr"
    /\ tree.node.tag = "Lambda"
    /\ IsPassThrough(tree)
    /\ schema_def = Some(EnclosingSchema)
    /\ result[1] # None
    /\ result[1][1] \in ProperSubExprs(tree)
    /\ \E l \in ProperSubExprs(tree) :
          l.node.tag = "List" /\ result[1][1] \in ProperSubExprs(l)
    /\ result[2] = schema_def

\* p lies in entry it, off its key and off its value.
InGapOf(it, p) == contains_pos(it, p) /\ ~OnKeyOf(it, p) /\ ~OnValueOf(it, p)

\* The Config and ConfigIfEntry expressions of e that hold p in an entry
\* off key and value, outside every DictComp (which is not descended).
GapConfigs(e, p) ==
    {x \in SubExprs(e) :
        /\ IsConfigLike(x)
        /\ \E it \in Range(ItemsOf(x)) : InGapOf(it, p)
        /\ \A d \in SubExprs(e) :
              d.node.tag = "DictComp" => x \notin ProperSubExprs(d)}

\* C14: when an entry of a Config or ConfigIfEntry contains the position
\* and neither its key nor its value does, the result is (none, none),
\* whatever context came in and although the config expression, and a
\* schema instantiation's body around it, contain the position.
C14_EntryGap ==
    (op = "expr" /\ contains_pos(tree, pos) /\ GapConfigs(tree, pos) # {})
        => result = <<None, None>>

C14_Witness ==
    /\ op = "expr"
    /\ IsSchema(tree)
    /\ schema_def = Some(EnclosingSchema)
    /\ \E it \in Range(ItemsOf(Body(tree))) : InGapOf(it, pos)
    /\ result = <<None, None>>

====
